---- MODULE Spec2Model ----
EXTENDS Integers, Sequences, FiniteSets, TLC

(***************************************************************************)
(* Model of the guitar chord-voicing engine, src/utils/guitarChords.ts.    *)
(*                                                                         *)
(* Conventions.                                                            *)
(*  - Strings are numbered 1..6 here (0..5 in the source); string 1 is the *)
(*    low E string.                                                        *)
(*  - The fret value 'x' (muted) is X; the null of stringPitches, of a     *)
(*    selection slot, of `best` and of `barre` is NULL.                    *)
(*  - Scores are kept in tenths (ScoreUnit): the source adds the integer   *)
(*    penalties and minFret * 0.2 in double precision.  Within one call of *)
(*    generateChordVoicings two scores are either the same double or       *)
(*    differ by at least 0.2, so comparing tenths compares the doubles.    *)
(*    getBestVoicingShape compares sums of such scores and startFret * 0.3 *)
(*    across calls, where the rounding of the doubles decides ties: there  *)
(*    the doubles themselves are computed (DAdd, DMulInt, DLess).          *)
(*  - chordTones is a set: the source receives an array and reads it only  *)
(*    through new Set(chordTones) and through the sorted interval list.    *)
(***************************************************************************)

X == -1
NULL == -2
Infinity == 1000000
ScoreUnit == 10

STANDARD_TUNING == <<4, 9, 2, 7, 11, 4>>
TOTAL_FRETS == 12
\* Variants of the two constants below: a window one fret wider, a minimum of
\* two strings.
WINDOW_FRET_SPAN_Wider == 3 + 1
minStringsLower == 3 - 1
\* A variant of maxStrings: at most two strings.
maxStringsLower == 6 - 4
WINDOW_FRET_SPAN == 3
NumStrings == 6
minStrings == 3
maxStrings == 6
targetStrings == 4

\* The tables of the harmonic layer.  A string that the code takes apart (a
\* key name, a note name, a chord name) is the sequence of its characters:
\* "F#m" is <<"F", "#", "m">>.
MAJOR_INTERVALS == <<0, 2, 4, 5, 7, 9, 11>>
MINOR_INTERVALS == <<0, 2, 3, 5, 7, 8, 10>>

\* The degree sign of the source's labels is written o.
ROMAN_MAJOR == <<"I", "ii", "iii", "IV", "V", "vi", "viio">>
ROMAN_MINOR == <<"i", "iio", "III", "iv", "v", "VI", "VII">>

LETTERS == <<"C", "D", "E", "F", "G", "A", "B">>
LETTER_TO_PC == [C |-> 0, D |-> 2, E |-> 4, F |-> 5, G |-> 7, A |-> 9, B |-> 11]

\* The entries of PREFERRED_SHAPES, in the order of the source.
PREFERRED_SHAPES ==
  << [key |-> <<"C">>, frets |-> <<X, 3, 2, 0, 1, 0>>,
      fingers |-> <<NULL, 3, 2, NULL, 1, NULL>>],
     [key |-> <<"D">>, frets |-> <<X, X, 0, 2, 3, 2>>,
      fingers |-> <<NULL, NULL, NULL, 1, 3, 2>>],
     [key |-> <<"E">>, frets |-> <<0, 2, 2, 1, 0, 0>>,
      fingers |-> <<NULL, 2, 3, 1, NULL, NULL>>],
     [key |-> <<"G">>, frets |-> <<3, 2, 0, 0, 0, 3>>,
      fingers |-> <<2, 1, NULL, NULL, NULL, 3>>],
     [key |-> <<"A">>, frets |-> <<X, 0, 2, 2, 2, 0>>,
      fingers |-> <<NULL, NULL, 1, 2, 3, NULL>>],
     [key |-> <<"A", "m">>, frets |-> <<X, 0, 2, 2, 1, 0>>,
      fingers |-> <<NULL, NULL, 2, 3, 1, NULL>>],
     [key |-> <<"E", "m">>, frets |-> <<0, 2, 2, 0, 0, 0>>,
      fingers |-> <<NULL, 2, 3, NULL, NULL, NULL>>],
     [key |-> <<"D", "m">>, frets |-> <<X, X, 0, 2, 3, 1>>,
      fingers |-> <<NULL, NULL, NULL, 2, 3, 1>>],
     [key |-> <<"F">>, frets |-> <<1, 3, 3, 2, 1, 1>>,
      fingers |-> <<1, 3, 4, 2, 1, 1>>],
     [key |-> <<"B", "m">>, frets |-> <<X, 2, 4, 4, 3, 2>>,
      fingers |-> <<NULL, 1, 3, 4, 2, 1>>],
     [key |-> <<"B">>, frets |-> <<X, 2, 4, 4, 4, 2>>,
      fingers |-> <<NULL, 1, 3, 3, 3, 1>>] >>

\* The module-level arrays: frets and fingers of the 11 entries of
\* PREFERRED_SHAPES (entry k has the arrays 2k - 1 and 2k), then STANDARD_TUNING.
ModuleArrayCount == 23

\* Bounds of the model: the input chords have at most MaxTones tones, each at
\* most MaxInterval semitones above the root; the voicings handed to
\* getVoicingScore on their own use the frets 0 .. MaxScoreFret, the fret
\* patterns handed to buildChordShape on their own the frets 0 .. MaxShapeFret;
\* a sequence of calls on the module has at most MaxCalls calls.
MaxTones == 3
MaxInterval == 8
MaxScoreFret == 4
MaxShapeFret == 5
MaxCalls == 3

PitchClasses == 0 .. 11
StringIdx == 1 .. NumStrings

----------------------------------------------------------------------------
(* Helpers of the JavaScript runtime.                                      *)

\* JavaScript's % : the result takes the sign of the dividend.
JsRem(a, n) == IF a >= 0 THEN a % n ELSE 0 - ((0 - a) % n)

normalizePitch(value) == JsRem(JsRem(value, 12) + 12, 12)

Abs(n) == IF n < 0 THEN 0 - n ELSE n

\* Math.min(...xs), Math.max(...xs) of a non-empty sequence of numbers.
SeqMin(xs) == CHOOSE m \in {xs[i] : i \in DOMAIN xs} :
                 \A i \in DOMAIN xs : m <= xs[i]
SeqMax(xs) == CHOOSE m \in {xs[i] : i \in DOMAIN xs} :
                 \A i \in DOMAIN xs : m >= xs[i]

\* Array.prototype.filter, some, map on sequences are SelectSeq, \E, [i |-> ..].

\* The numbers of a set as the ascending list .sort((a, b) => a - b) gives.
RECURSIVE SortedSeq(_)
SortedSeq(S) ==
  IF S = {} THEN << >>
  ELSE LET m == CHOOSE v \in S : \A w \in S : v <= w
       IN  <<m>> \o SortedSeq(S \ {m})

----------------------------------------------------------------------------
(* IEEE-754 double arithmetic on the numbers getBestVoicingShape compares.  *)
(* A non-negative double is <<integer part, l1, l2, l3, l4>>: the fraction  *)
(* is l1/2^15 + l2/2^30 + l3/2^45 + l4/2^60.  The values met are 0 or lie   *)
(* in [2^-8, 2^7), whose doubles all have this form.                       *)

Limb == 32768

DoubleOfInt(n) == <<n, 0, 0, 0, 0>>

\* The doubles of the literals 0.2 (0x1.999999999999ap-3) and
\* 0.3 (0x1.3333333333333p-2).
Double02 == <<0, 6553, 19660, 26214, 13120>>
Double03 == <<0, 9830, 13107, 6553, 19648>>

\* Carries of an exact sum or product, from the last limb up.
carryLimbs(raw) ==
  LET v4 == raw[5]
      v3 == raw[4] + (v4 \div Limb)
      v2 == raw[3] + (v3 \div Limb)
      v1 == raw[2] + (v2 \div Limb)
  IN  <<raw[1] + (v1 \div Limb), v1 % Limb, v2 % Limb, v3 % Limb, v4 % Limb>>

\* floor(log2(x)) of a value in [2^-8, 2^7).
exponentOf(x) ==
  IF x[1] >= 1
  THEN CHOOSE e \in 0 .. 6 : 2^e <= x[1] /\ x[1] < 2^(e + 1)
  ELSE 0 - (CHOOSE j \in 1 .. 8 : 2^(15 - j) <= x[2] /\ x[2] < 2^(16 - j))

\* Round an exact value to 53 significant bits, ties to even: with exponent
\* e the last 8 + e bits of the fraction are dropped.
roundToDouble(x) ==
  IF x = DoubleOfInt(0) THEN x
  ELSE LET dropped == 8 + exponentOf(x)
           q       == 2^dropped
           kept    == x[5] \div q
           rest    == x[5] % q
           up      == 2 * rest > q \/ (2 * rest = q /\ kept % 2 = 1)
       IN  carryLimbs(<<x[1], x[2], x[3], x[4], (kept + (IF up THEN 1 ELSE 0)) * q>>)

\* a + b of two doubles.
DAdd(a, b) == roundToDouble(carryLimbs([i \in 1 .. 5 |-> a[i] + b[i]]))

\* n * a for an integer n >= 0 and a double a.
DMulInt(n, a) == roundToDouble(carryLimbs([i \in 1 .. 5 |-> n * a[i]]))

\* a < b
DLess(a, b) ==
  \E i \in 1 .. 5 : a[i] < b[i] /\ \A j \in 1 .. (i - 1) : a[j] = b[j]

----------------------------------------------------------------------------
(* Interval helpers.                                                       *)

\* A variant that knows the perfect fifth only.
getFifthIntervalsPerfectOnly(intervals) ==
  SelectSeq(intervals, LAMBDA interval : interval = 7)

isFifthInterval(interval) == interval = 6 \/ interval = 7 \/ interval = 8

getFifthIntervals(intervals) ==
  SelectSeq(intervals, LAMBDA interval : isFifthInterval(interval))

\* A variant that requires the root and the third only.
getRequiredIntervalsWithoutFifths(intervals) ==
  LET thirds == SelectSeq(intervals, LAMBDA interval : interval = 3 \/ interval = 4)
      third  == IF Len(thirds) > 0 THEN <<thirds[1]>> ELSE << >>
  IN  <<0>> \o third

\* intervals.find(...): the first 3 or 4 of the list, if any.
getRequiredIntervals(intervals) ==
  LET thirds == SelectSeq(intervals, LAMBDA interval : interval = 3 \/ interval = 4)
      third  == IF Len(thirds) > 0 THEN <<thirds[1]>> ELSE << >>
  IN  <<0>> \o third \o getFifthIntervals(intervals)

SeqToSet(s) == {s[i] : i \in DOMAIN s}

\* chordTones.map(tone => normalizePitch(tone - root)).sort((a, b) => a - b)
chordIntervals(chordTones, root) ==
  SortedSeq({normalizePitch(tone - root) : tone \in chordTones})

hasFifth(voicing, root, intervals) ==
  LET fifthIntervals == SeqToSet(getFifthIntervals(intervals))
  IN  \E i \in DOMAIN voicing.stringPitches :
        /\ voicing.stringPitches[i] # NULL
        /\ normalizePitch(voicing.stringPitches[i] - root) \in fifthIntervals

----------------------------------------------------------------------------
(* getVoicingScore, in tenths.                                             *)

soundedFrets(frets) == SelectSeq(frets, LAMBDA fret : fret # X)

RECURSIVE jumpPenaltyFrom(_, _)
jumpPenaltyFrom(frets, i) ==
  IF i > Len(frets) - 1 THEN 0
  ELSE LET current == frets[i]
           next    == frets[i + 1]
           diff    == Abs(current - next)
       IN  (IF current # X /\ next # X /\ diff > 3 THEN diff - 3 ELSE 0)
           + jumpPenaltyFrom(frets, i + 1)

\* frets.findIndex(fret => fret !== 'x'), 0 when there is none (-1 in the source).
bassIndexOf(frets) ==
  IF \E i \in DOMAIN frets : frets[i] # X
  THEN CHOOSE i \in DOMAIN frets :
         frets[i] # X /\ \A j \in DOMAIN frets : j < i => frets[j] = X
  ELSE 0

\* A variant with the test on the root inverted.
bassPenaltyOfInverted(bassPitch, root) ==
  IF bassPitch # NULL /\ bassPitch = root THEN 2 ELSE 0

bassPenaltyOf(bassPitch, root) == IF bassPitch # NULL /\ bassPitch # root THEN 2 ELSE 0

positionPenaltyOf(minFret) == minFret * 2

getVoicingScore(voicing, root, target) ==
  LET frets == soundedFrets(voicing.frets)
  IN  IF Len(frets) = 0 THEN Infinity
      ELSE
        LET minFret       == SeqMin(frets)
            maxFret       == SeqMax(frets)
            spanPenalty   == (maxFret - minFret) * 2
            mutedCount    == Len(SelectSeq(voicing.frets, LAMBDA fret : fret = X))
            jumpPenalty   == jumpPenaltyFrom(voicing.frets, 1)
            bassIndex     == bassIndexOf(voicing.frets)
            bassPitch     == IF bassIndex >= 1 THEN voicing.stringPitches[bassIndex] ELSE NULL
            bassPenalty   == bassPenaltyOf(bassPitch, root)
            stringPenalty == Abs(target - Len(frets))
        IN  ScoreUnit * (spanPenalty + jumpPenalty + mutedCount + bassPenalty + stringPenalty)
              + positionPenaltyOf(minFret)

----------------------------------------------------------------------------
(* generateChordVoicings.                                                  *)

\* A variant that opens the window at the nut for startFret < 1 only.
windowStartOfStrict(startFret) == IF startFret < 1 THEN 0 ELSE startFret

windowStartOf(startFret) == IF startFret <= 1 THEN 0 ELSE startFret

Min2(a, b) == IF a < b THEN a ELSE b

\* A variant whose window is two frets longer than the span allowed.
windowEndOfLonger(windowStart) == Min2(windowStart + WINDOW_FRET_SPAN + 2, TOTAL_FRETS)

windowEndOf(windowStart) == Min2(windowStart + WINDOW_FRET_SPAN, TOTAL_FRETS)

NullChoice == [fret |-> X, pitchClass |-> NULL]

\* A variant that records the pitch-class of the open string at every fret.
RECURSIVE candidatesFromOpenPitch(_, _, _, _)
candidatesFromOpenPitch(openPitch, fret, windowEnd, toneSet) ==
  IF fret > windowEnd THEN << >>
  ELSE (IF normalizePitch(openPitch + fret) \in toneSet
        THEN <<[fret |-> fret, pitchClass |-> normalizePitch(openPitch)]>>
        ELSE << >>)
       \o candidatesFromOpenPitch(openPitch, fret + 1, windowEnd, toneSet)

RECURSIVE candidatesFrom(_, _, _, _)
candidatesFrom(openPitch, fret, windowEnd, toneSet) ==
  IF fret > windowEnd THEN << >>
  ELSE LET pitchClass == normalizePitch(openPitch + fret)
       IN  (IF pitchClass \in toneSet
            THEN <<[fret |-> fret, pitchClass |-> pitchClass]>>
            ELSE << >>)
           \o candidatesFrom(openPitch, fret + 1, windowEnd, toneSet)

candidatesPerString(windowStart, windowEnd, toneSet) ==
  [s \in StringIdx |->
     candidatesFrom(STANDARD_TUNING[s], windowStart, windowEnd, toneSet)]

\* A variant that looks at the first fret of the window only.
hasRequiredToneAtWindowStart(windowStart, windowEnd, root, requiredIntervals) ==
  [s \in StringIdx |->
     normalizePitch(STANDARD_TUNING[s] + windowStart - root) \in requiredIntervals]

hasRequiredToneOnString(windowStart, windowEnd, root, requiredIntervals) ==
  [s \in StringIdx |->
     \E fret \in windowStart .. windowEnd :
        normalizePitch(STANDARD_TUNING[s] + fret - root) \in requiredIntervals]

\* strings.join('-'): the entries with a separator between them.
Sep == -3
RECURSIVE joinFrom(_, _)
joinFrom(strings, i) ==
  IF i > Len(strings) THEN << >>
  ELSE (IF i > 1 THEN <<Sep>> ELSE << >>) \o <<strings[i]>> \o joinFrom(strings, i + 1)
join(strings) == joinFrom(strings, 1)

\* The calls made on the module so far, each with its arguments and what
\* it returned (see CallGenerate, CallBest, CallDiagrams).
VARIABLE calls

\* A variant that is one set for all calls: it holds the patterns the
\* earlier calls of generateChordVoicings returned.
seenPatternsOfEarlierCalls ==
  UNION {{join(calls[k].out[n].voicing.frets) : n \in DOMAIN calls[k].out} :
           k \in {j \in DOMAIN calls : calls[j].fn = "generateChordVoicings"}}

\* new Set<string>()
newSeenPatterns == {}

activeCountRejected(activeCount) ==
  activeCount < minStrings \/ activeCount > maxStrings

\* A variant that rejects only when no required interval at all is present.
missingRequiredAll(intervalsPresent, requiredIntervals) ==
  \A interval \in requiredIntervals : interval \notin intervalsPresent

missingRequired(intervalsPresent, requiredIntervals) ==
  \E interval \in requiredIntervals : interval \notin intervalsPresent

spanRejected(minFret, maxFret) == maxFret - minFret > WINDOW_FRET_SPAN

\* A variant whose loop stops one string early.
mutesRequiredStringButLast(strings, hasRequired) ==
  \E stringIndex \in DOMAIN strings :
     /\ stringIndex < Len(strings)
     /\ strings[stringIndex] = X /\ hasRequired[stringIndex]

mutesRequiredString(strings, hasRequired) ==
  \E stringIndex \in DOMAIN strings :
     strings[stringIndex] = X /\ hasRequired[stringIndex]

\* ctx: the constants of one call that the closures recordCandidate and walk
\* read; acc: the arrays they write, [voicings, seenPatterns].
recordCandidate(selection, acc, ctx) ==
  LET activeStrings == SelectSeq(selection, LAMBDA value : value # NullChoice)
      activeCount   == Len(activeStrings)
  IN  IF activeCountRejected(activeCount) THEN acc
      ELSE
        LET intervalsPresent ==
              {normalizePitch(activeStrings[i].pitchClass - ctx.root) :
                 i \in DOMAIN activeStrings}
            frets == [i \in DOMAIN activeStrings |-> activeStrings[i].fret]
        IN  IF missingRequired(intervalsPresent, ctx.requiredIntervals) THEN acc
            ELSE
              LET minFret == SeqMin(frets)
                  maxFret == SeqMax(frets)
              IN  IF spanRejected(minFret, maxFret) THEN acc
                  ELSE
                    LET strings == [i \in StringIdx |-> selection[i].fret]
                    IN  IF mutesRequiredString(strings, ctx.hasRequiredToneOnString)
                        THEN acc
                        ELSE
                          LET pattern == join(strings)
                          IN  IF pattern \in acc.seenPatterns THEN acc
                              ELSE
                                [seenPatterns |-> acc.seenPatterns \cup {pattern},
                                 voicings |->
                                   Append(acc.voicings,
                                     [frets |-> strings,
                                      stringPitches |->
                                        [i \in StringIdx |-> selection[i].pitchClass],
                                      fretSpan |-> [min |-> minFret, max |-> maxFret],
                                      windowStart |-> ctx.windowStart,
                                      windowEnd |-> ctx.windowEnd])]

\* A variant that also gives up when the strings left can only just reach
\* the minimum.
walkPrunedEager(stringIndex, activeCount) ==
  LET remaining == NumStrings - (stringIndex - 1)
  IN  activeCount > maxStrings \/ activeCount + remaining <= minStrings

walkPruned(stringIndex, activeCount) ==
  LET remaining == NumStrings - (stringIndex - 1)
  IN  activeCount > maxStrings \/ activeCount + remaining < minStrings

RECURSIVE walk(_, _, _, _, _)
RECURSIVE walkCandidates(_, _, _, _, _, _)

\* walk(stringIndex, activeCount); stringIndex = 7 is the source's 6.
\* acc is what the calls made so far have written.  (The test on Len is never
\* true: it makes TLC, which is lazy, evaluate those calls first, in the
\* source's order.)
walk(stringIndex, activeCount, selection, acc, ctx) ==
  IF Len(acc.voicings) < 0 THEN acc
  ELSE IF stringIndex = NumStrings + 1 THEN recordCandidate(selection, acc, ctx)
  ELSE IF walkPruned(stringIndex, activeCount) THEN acc
  ELSE
    \* selection[stringIndex] = null; walk(...); candidates.forEach(...)
    walkCandidates(stringIndex, activeCount,
                   [selection EXCEPT ![stringIndex] = NullChoice],
                   walk(stringIndex + 1, activeCount,
                        [selection EXCEPT ![stringIndex] = NullChoice], acc, ctx),
                   ctx, 1)

\* candidates.forEach(...), from the k-th candidate on; selection[stringIndex]
\* is null between two iterations.
walkCandidates(stringIndex, activeCount, selection, acc, ctx, k) ==
  IF Len(acc.voicings) < 0 THEN acc
  ELSE IF k > Len(ctx.candidatesPerString[stringIndex]) THEN acc
  ELSE
    walkCandidates(stringIndex, activeCount, selection,
                   walk(stringIndex + 1, activeCount + 1,
                        [selection EXCEPT
                           ![stringIndex] = ctx.candidatesPerString[stringIndex][k]],
                        acc, ctx),
                   ctx, k + 1)

\* The accepted voicings, in the order walk(0, 0) pushes them.
enumerateVoicings(chordTones, root, startFret) ==
  LET windowStart == windowStartOf(startFret)
      windowEnd   == windowEndOf(windowStart)
      intervals   == chordIntervals(chordTones, root)
      requiredIntervals == SeqToSet(getRequiredIntervals(intervals))
      ctx == [root |-> root,
              windowStart |-> windowStart,
              windowEnd |-> windowEnd,
              requiredIntervals |-> requiredIntervals,
              candidatesPerString |->
                candidatesPerString(windowStart, windowEnd, chordTones),
              hasRequiredToneOnString |->
                hasRequiredToneOnString(windowStart, windowEnd, root, requiredIntervals)]
      acc0 == [voicings |-> << >>, seenPatterns |-> newSeenPatterns]
  IN  walk(1, 0, [i \in StringIdx |-> NullChoice], acc0, ctx).voicings

\* A variant that puts the complete voicings first and keeps the whole list.
filterFifthKeepAll(voicings, root, intervals) ==
  SelectSeq(voicings, LAMBDA voicing : hasFifth(voicing, root, intervals)) \o voicings

filterFifth(voicings, root, intervals) ==
  LET hasCompleteTriad ==
        \E i \in DOMAIN voicings : hasFifth(voicings[i], root, intervals)
  IN  IF hasCompleteTriad
      THEN SelectSeq(voicings, LAMBDA voicing : hasFifth(voicing, root, intervals))
      ELSE voicings

\* A variant with the comparator reversed (b.score - a.score).
RECURSIVE insertByScoreDescending(_, _, _)
insertByScoreDescending(sorted, e, i) ==
  IF i > Len(sorted) THEN Append(sorted, e)
  ELSE IF e.score - sorted[i].score > 0
       THEN SubSeq(sorted, 1, i - 1) \o <<e>> \o SubSeq(sorted, i, Len(sorted))
       ELSE insertByScoreDescending(sorted, e, i + 1)

\* Array.prototype.sort is stable: an element goes after the elements that
\* do not compare greater than it.
RECURSIVE insertByScore(_, _, _)
insertByScore(sorted, e, i) ==
  IF i > Len(sorted) THEN Append(sorted, e)
  ELSE IF sorted[i].score - e.score > 0
       THEN SubSeq(sorted, 1, i - 1) \o <<e>> \o SubSeq(sorted, i, Len(sorted))
       ELSE insertByScore(sorted, e, i + 1)

\* The first n items, sorted.
RECURSIVE sortByScore(_, _)
sortByScore(items, n) ==
  IF n = 0 THEN << >>
  ELSE insertByScore(sortByScore(items, n - 1), items[n], 1)

\* The map to ScoredVoicing and the sort of the filtered voicings.
scoreAndSort(filteredVoicings, root) ==
  sortByScore([i \in DOMAIN filteredVoicings |->
                 [voicing |-> filteredVoicings[i],
                  score |-> getVoicingScore(filteredVoicings[i], root, targetStrings)]],
              Len(filteredVoicings))

\* generateChordVoicings from line 285 on: the filter, the scores, the sort.
rankVoicings(voicings, chordTones, root) ==
  scoreAndSort(filterFifth(voicings, root, chordIntervals(chordTones, root)), root)

generateChordVoicings(chordTones, root, startFret) ==
  rankVoicings(enumerateVoicings(chordTones, root, startFret), chordTones, root)

----------------------------------------------------------------------------
(* The fingering synthesizer.                                              *)

NoBarre == [fret |-> NULL, fromString |-> NULL, toString |-> NULL, finger |-> NULL]

\* The indices of the strings with a numeric fret > 0.
frettedStrings(frets) == {i \in DOMAIN frets : frets[i] # X /\ frets[i] > 0}

SetMin(S) == CHOOSE m \in S : \A v \in S : m <= v
SetMax(S) == CHOOSE m \in S : \A v \in S : m >= v

\* A variant that wants three strings on the lowest fret.
detectBarreNeedsThree(frets) ==
  LET fretted == frettedStrings(frets)
  IN  IF fretted = {} THEN NoBarre
      ELSE
        LET minFret      == SetMin({frets[i] : i \in fretted})
            barreStrings == {i \in fretted : frets[i] = minFret}
        IN  IF Cardinality(barreStrings) < 3 THEN NoBarre
            ELSE [fret |-> minFret,
                  fromString |-> SetMin(barreStrings) - 1,
                  toString |-> SetMax(barreStrings) - 1,
                  finger |-> 1]

\* fromString and toString are the source's string indices 0..5.
detectBarre(frets) ==
  LET fretted == frettedStrings(frets)
  IN  IF fretted = {} THEN NoBarre
      ELSE
        LET minFret      == SetMin({frets[i] : i \in fretted})
            barreStrings == {i \in fretted : frets[i] = minFret}
        IN  IF Cardinality(barreStrings) < 2 THEN NoBarre
            ELSE [fret |-> minFret,
                  fromString |-> SetMin(barreStrings) - 1,
                  toString |-> SetMax(barreStrings) - 1,
                  finger |-> 1]

\* A variant without the cap at finger 4.
assignFingerNumbersUncapped(frets) ==
  LET fretted == frettedStrings(frets)
  IN  IF fretted = {} THEN [i \in StringIdx |-> NULL]
      ELSE
        LET uniqueFrets == SortedSeq({frets[i] : i \in fretted})
            idxOf(fret) == CHOOSE idx \in DOMAIN uniqueFrets : uniqueFrets[idx] = fret
        IN  [i \in StringIdx |-> IF i \in fretted THEN idxOf(frets[i]) ELSE NULL]

assignFingerNumbers(frets) ==
  LET fretted == frettedStrings(frets)
  IN  IF fretted = {} THEN [i \in StringIdx |-> NULL]
      ELSE
        LET uniqueFrets == SortedSeq({frets[i] : i \in fretted})
            idxOf(fret) == CHOOSE idx \in DOMAIN uniqueFrets : uniqueFrets[idx] = fret
        IN  [i \in StringIdx |->
               IF i \in fretted THEN Min2(idxOf(frets[i]), 4) ELSE NULL]

\* A variant that takes the lowest fret of all sounded strings, open ones
\* included.
buildChordShapeCountsOpen(frets) ==
  LET numericFrets == {i \in DOMAIN frets : frets[i] # X}
      minFret   == IF numericFrets # {} THEN SetMin({frets[i] : i \in numericFrets}) ELSE 1
      startFret == IF minFret > 1 THEN minFret ELSE 1
  IN  [frets |-> frets,
       fingers |-> assignFingerNumbers(frets),
       startFret |-> startFret,
       barre |-> detectBarre(frets)]

\* A variant whose display always starts at the first fret.
buildChordShapeFromNut(frets) ==
  [frets |-> frets,
   fingers |-> assignFingerNumbers(frets),
   startFret |-> 1,
   barre |-> detectBarre(frets)]

\* buildChordShape(frets) without providedFingers.
buildChordShape(frets) ==
  LET numericFrets == frettedStrings(frets)
      minFret   == IF numericFrets # {} THEN SetMin({frets[i] : i \in numericFrets}) ELSE 1
      startFret == IF minFret > 1 THEN minFret ELSE 1
  IN  [frets |-> frets,
       fingers |-> assignFingerNumbers(frets),
       startFret |-> startFret,
       barre |-> detectBarre(frets)]

\* A variant of the fallback pattern: six open strings.
AllOpen == [i \in StringIdx |-> 0]

\* ['x', 'x', 'x', 'x', 'x', 'x']
AllMuted == [i \in StringIdx |-> X]

----------------------------------------------------------------------------
(* getBestVoicingShape as a state machine: one step per iteration of the   *)
(* scan over startFret, then the step that builds the shape.               *)

VARIABLES
  tones,        \* chordTones: the set of pitch-classes of the chord
  rootPc,       \* root: the root pitch-class
  scanFret,     \* startFret, the loop variable of the scan, 1 .. TOTAL_FRETS + 1
  calledWith,   \* the startFret of the last call of generateChordVoicings, 0 before
  accepted,     \* voicings: what walk(0, 0) pushed in that call, before the filter
  ranked,       \* scored: what that call returned
  candidates,   \* candidate = scored[0] of each iteration so far, as scored.slice(0, 1)
  best,         \* << >> for null, else <<the stored ScoredVoicing>>
  shape,        \* << >> until the function returns, then <<the returned shape>>
  pc,           \* "scan" or "done"; "score" and "scored" for a call of getVoicingScore;
                \* "build" and "built" for a call of buildChordShape
  scoreArgs,    \* the arguments of a call of getVoicingScore: [voicing, root]
  scoreResult,  \* << >> before that call returns, then <<the score>>
  shapeArgs,    \* the argument of a call of buildChordShape: <<frets>>
  diagramArgs,  \* the arguments of a call of getDiatonicChordDiagrams:
                \* <<[currentKey, spellingMode, tonality]>>, << >> without such a call
  diagrams,     \* the elements scaleNotes.map has produced so far in that call
  heapTop,      \* the number of arrays allocated so far, the module-level ones
                \* and those of the shapes the calls returned
  moduleLevel,  \* the module-level data: STANDARD_TUNING and PREFERRED_SHAPES
  rotation,     \* App's state rotation, in degrees
  isDragging,   \* Dial's state isDragging
  dragStartRotation,  \* Dial's ref dragStartRotation
  releasedAt    \* <<the rotation handleDragEnd read>> from its run until the
                \* next pointer down or step, << >> otherwise

searchVars == <<tones, rootPc, scanFret, calledWith, accepted, ranked, candidates, best,
               shape>>
scoreVars == <<scoreArgs, scoreResult>>
fingerVars == <<shapeArgs>>
diagramVars == <<diagramArgs, diagrams>>
callVars == <<calls, heapTop, moduleLevel>>
dialVars == <<rotation, isDragging, dragStartRotation, releasedAt>>
vars == <<searchVars, scoreVars, fingerVars, diagramVars, callVars, dialVars, pc>>

\* The module as it is once loaded.
ModuleLoaded ==
  /\ moduleLevel = [STANDARD_TUNING |-> STANDARD_TUNING,
                    PREFERRED_SHAPES |-> PREFERRED_SHAPES]
  /\ heapTop = ModuleArrayCount

\* The dial as App and Dial create it: useState(0), useState(false),
\* useRef(0).
DialAtRest ==
  /\ rotation = 0
  /\ isDragging = FALSE
  /\ dragStartRotation = 0
  /\ releasedAt = << >>

\* No call of getDiatonicChordDiagrams and no recorded sequence of calls.
NoOuterCall ==
  /\ diagramArgs = << >>
  /\ diagrams = << >>
  /\ calls = << >>
  /\ ModuleLoaded

\* The input chords on a root: the root and at most MaxTones - 1 more tones,
\* each at most MaxInterval semitones above it.
ChordsOn(r) ==
  {{r} \cup {normalizePitch(r + i) : i \in extras} :
     extras \in {e \in SUBSET (1 .. MaxInterval) : Cardinality(e) <= MaxTones - 1}}

Init ==
  /\ rootPc \in PitchClasses
  /\ tones \in ChordsOn(rootPc)
  /\ scanFret = 1
  /\ calledWith = 0
  /\ accepted = << >>
  /\ ranked = << >>
  /\ candidates = << >>
  /\ best = << >>
  /\ shape = << >>
  /\ pc = "scan"
  /\ scoreArgs = << >>
  /\ scoreResult = << >>
  /\ shapeArgs = << >>
  /\ NoOuterCall
  /\ DialAtRest

\* The double a ScoredVoicing holds in score: getVoicingScore adds the
\* integer penalties exactly and then positionPenalty = minFret * 0.2; the
\* minFret of a recorded voicing is its fretSpan.min.
scoreAsDouble(scored) ==
  DAdd(DoubleOfInt((scored.score - positionPenaltyOf(scored.voicing.fretSpan.min))
                     \div ScoreUnit),
       DMulInt(scored.voicing.fretSpan.min, Double02))

\* candidate.score + startFret * 0.3 and best.score + windowStart * 0.3.
adjustedScore(score, fret) == DAdd(score, DMulInt(fret, Double03))

\* A variant that never stores the first candidate (best && ... for !best || ...).
replacesBestNeedsStored(candidate, fret, stored) ==
  /\ Len(stored) # 0
  /\ DLess(adjustedScore(scoreAsDouble(candidate), fret),
           adjustedScore(scoreAsDouble(stored[1]), stored[1].voicing.windowStart))

\* A variant that compares the scores without the position terms.
replacesBestIgnoresPosition(candidate, fret, stored) ==
  \/ Len(stored) = 0
  \/ DLess(scoreAsDouble(candidate), scoreAsDouble(stored[1]))

\* !best || adjustedScore < best.score + best.voicing.windowStart * 0.3
replacesBest(candidate, fret, stored) ==
  \/ Len(stored) = 0
  \/ DLess(adjustedScore(scoreAsDouble(candidate), fret),
           adjustedScore(scoreAsDouble(stored[1]), stored[1].voicing.windowStart))

\* What getBestVoicingShape returns for the stored best.
shapeOfBest(stored) ==
  IF Len(stored) = 0
  THEN buildChordShape(AllMuted)
  ELSE buildChordShape(stored[1].voicing.frets)

\* One iteration of the for loop: the call of generateChordVoicings (accepted'
\* and ranked' are its voicings and its result), then the update of best;
\* candidate = scored[0] is Head(ranked').
ScanStep ==
  /\ pc = "scan"
  /\ scanFret <= TOTAL_FRETS
  /\ accepted' = enumerateVoicings(tones, rootPc, scanFret)
  /\ ranked' = rankVoicings(accepted', tones, rootPc)
  /\ candidates' = Append(candidates, SubSeq(ranked', 1, Min2(1, Len(ranked'))))
  /\ best' = IF Len(ranked') = 0 THEN best
             ELSE IF replacesBest(Head(ranked'), scanFret, best)
                  THEN <<Head(ranked')>>
                  ELSE best
  /\ calledWith' = scanFret
  /\ scanFret' = scanFret + 1
  /\ UNCHANGED <<tones, rootPc, shape, pc, scoreVars, fingerVars, dialVars, diagramVars, callVars>>

\* The loop is over: build the shape of the stored best, or the fallback.
Finish ==
  /\ pc = "scan"
  /\ scanFret > TOTAL_FRETS
  /\ shape' = <<shapeOfBest(best)>>
  /\ pc' = "done"
  /\ UNCHANGED <<tones, rootPc, scanFret, calledWith, accepted, ranked, candidates, best,
                 scoreVars, fingerVars, dialVars, diagramVars, callVars>>

Next == ScanStep \/ Finish

Spec == Init /\ [][Next]_vars

\* getBestVoicingShape on the two-tone chords: the root and one more tone,
\* at any of the 11 intervals above it.
DyadsOn(r) == {{r, normalizePitch(r + i)} : i \in 1 .. 11}

InitDyad ==
  /\ rootPc \in PitchClasses
  /\ tones \in DyadsOn(rootPc)
  /\ scanFret = 1
  /\ calledWith = 0
  /\ accepted = << >>
  /\ ranked = << >>
  /\ candidates = << >>
  /\ best = << >>
  /\ shape = << >>
  /\ pc = "scan"
  /\ scoreArgs = << >>
  /\ scoreResult = << >>
  /\ shapeArgs = << >>
  /\ NoOuterCall
  /\ DialAtRest

SpecDyad == InitDyad /\ [][Next]_vars

\* getBestVoicingShape on any input: chordTones of fewer than MaxTones
\* pitch-classes at most MaxInterval semitones above the root, with or
\* without the root among them, the empty chord included.
AnyChordsOn(r) ==
  {c \in SUBSET {normalizePitch(r + i) : i \in 0 .. MaxInterval} :
     Cardinality(c) <= MaxTones - 1}

InitAnyInput ==
  /\ rootPc \in PitchClasses
  /\ tones \in AnyChordsOn(rootPc)
  /\ scanFret = 1
  /\ calledWith = 0
  /\ accepted = << >>
  /\ ranked = << >>
  /\ candidates = << >>
  /\ best = << >>
  /\ shape = << >>
  /\ pc = "scan"
  /\ scoreArgs = << >>
  /\ scoreResult = << >>
  /\ shapeArgs = << >>
  /\ NoOuterCall
  /\ DialAtRest

SpecAnyInput == InitAnyInput /\ [][Next]_vars

----------------------------------------------------------------------------
(* getVoicingScore on its own: a call on any voicing over the frets         *)
(* 0 .. MaxScoreFret, with the pitches the tuning gives its strings.        *)

\* The voicing of a fret pattern: stringPitches as lines 180 and 250 set them.
\* getVoicingScore reads frets and stringPitches only.
voicingOfFrets(frets) ==
  [frets |-> frets,
   stringPitches |->
     [s \in StringIdx |->
        IF frets[s] = X THEN NULL ELSE normalizePitch(STANDARD_TUNING[s] + frets[s])]]

\* The roots a voicing is scored against: every pitch-class it sounds (the
\* search only scores voicings that sound their root) and pitch-class 0.
scoreRoots(voicing) ==
  {0} \cup {voicing.stringPitches[s] : s \in {t \in StringIdx : voicing.frets[t] # X}}

InitScore ==
  /\ \E frets \in [StringIdx -> {X} \cup (0 .. MaxScoreFret)] :
       \E r \in scoreRoots(voicingOfFrets(frets)) :
          scoreArgs = [voicing |-> voicingOfFrets(frets), root |-> r]
  /\ scoreResult = << >>
  /\ shapeArgs = << >>
  /\ NoOuterCall
  /\ DialAtRest
  /\ pc = "score"
  /\ tones = {}
  /\ rootPc = 0
  /\ scanFret = 1
  /\ calledWith = 0
  /\ accepted = << >>
  /\ ranked = << >>
  /\ candidates = << >>
  /\ best = << >>
  /\ shape = << >>

ScoreVoicing ==
  /\ pc = "score"
  /\ scoreResult' = <<getVoicingScore(scoreArgs.voicing, scoreArgs.root, targetStrings)>>
  /\ pc' = "scored"
  /\ UNCHANGED <<searchVars, scoreArgs, fingerVars, dialVars, diagramVars, callVars>>

NextScore == ScoreVoicing

SpecScore == InitScore /\ [][NextScore]_vars

----------------------------------------------------------------------------
(* buildChordShape on its own: a call on any pattern of six entries, each   *)
(* muted or a fret 0 .. MaxShapeFret.                                       *)

InitShape ==
  /\ \E frets \in [StringIdx -> {X} \cup (0 .. MaxShapeFret)] : shapeArgs = <<frets>>
  /\ shape = << >>
  /\ pc = "build"
  /\ tones = {}
  /\ rootPc = 0
  /\ scanFret = 1
  /\ calledWith = 0
  /\ accepted = << >>
  /\ ranked = << >>
  /\ candidates = << >>
  /\ best = << >>
  /\ scoreArgs = << >>
  /\ scoreResult = << >>
  /\ NoOuterCall
  /\ DialAtRest

BuildShape ==
  /\ pc = "build"
  /\ shape' = <<buildChordShape(shapeArgs[1])>>
  /\ pc' = "built"
  /\ UNCHANGED <<tones, rootPc, scanFret, calledWith, accepted, ranked, candidates, best,
                 scoreVars, fingerVars, dialVars, diagramVars, callVars>>

NextShape == BuildShape

SpecShape == InitShape /\ [][NextShape]_vars

----------------------------------------------------------------------------
(* getBestVoicingShape as one operator, for the callers that use its       *)
(* result: the same loop as ScanStep and Finish.                           *)

\* The update of best in one iteration, scored being the list the call
\* of generateChordVoicings returned.
bestAfter(scored, startFret, stored) ==
  IF Len(scored) = 0 THEN stored
  ELSE IF replacesBest(Head(scored), startFret, stored) THEN <<Head(scored)>>
  ELSE stored

RECURSIVE scanFrom(_, _, _, _)
scanFrom(chordTones, root, startFret, stored) ==
  IF startFret > TOTAL_FRETS THEN stored
  ELSE scanFrom(chordTones, root, startFret + 1,
                bestAfter(generateChordVoicings(chordTones, root, startFret),
                          startFret, stored))

getBestVoicingShape(chordTones, root) ==
  shapeOfBest(scanFrom(chordTones, root, 1, << >>))

----------------------------------------------------------------------------
(* The harmonic layer that calls the engine: key names, scale notes, chord *)
(* names, and getDiatonicChordDiagrams.                                    *)

\* PREFERRED_SHAPES[chordName]: << >> for undefined, else <<the entry>>.
\* A variant that looks the chord up without its accidentals.
preferredShapeOfIgnoringAccidentals(chordName) ==
  SelectSeq(PREFERRED_SHAPES,
            LAMBDA entry :
              entry.key = <<Head(chordName)>>
                          \o SelectSeq(Tail(chordName), LAMBDA ch : ch \notin {"#", "b"}))

preferredShapeOf(chordName) ==
  SelectSeq(PREFERRED_SHAPES, LAMBDA entry : entry.key = chordName)

\* note.endsWith('m') ? note.slice(0, -1) : note
stripMinorSuffix(note) ==
  IF Len(note) > 0 /\ note[Len(note)] = "m" THEN SubSeq(note, 1, Len(note) - 1) ELSE note

\* String.prototype.trim for the space character.
RECURSIVE trimStart(_)
trimStart(str) ==
  IF Len(str) > 0 /\ Head(str) = " " THEN trimStart(Tail(str)) ELSE str
RECURSIVE trimEnd(_)
trimEnd(str) ==
  IF Len(str) > 0 /\ str[Len(str)] = " " THEN trimEnd(SubSeq(str, 1, Len(str) - 1)) ELSE str
trim(str) == trimEnd(trimStart(str))

\* toUpperCase of one character, for the letters of note names.
toUpperCase(char) ==
  CASE char = "a" -> "A" [] char = "b" -> "B" [] char = "c" -> "C" [] char = "d" -> "D"
    [] char = "e" -> "E" [] char = "f" -> "F" [] char = "g" -> "G" [] OTHER -> char

RECURSIVE accidentalOf(_)
accidentalOf(accidentalPart) ==
  IF Len(accidentalPart) = 0 THEN 0
  ELSE (IF Head(accidentalPart) = "#" THEN 1 ELSE 0)
       + (IF Head(accidentalPart) = "b" THEN -1 ELSE 0)
       + accidentalOf(Tail(accidentalPart))

parseNoteName(note) ==
  LET trimmed    == trim(note)
      letter     == toUpperCase(trimmed[1])
      accidental == accidentalOf(Tail(trimmed))
  IN  [letter |-> letter,
       accidental |-> accidental,
       pitchClass |-> normalizePitch(LETTER_TO_PC[letter] + accidental)]

\* '#'.repeat(value) or 'b'.repeat(-value)
formatAccidental(value) ==
  IF value = 0 THEN << >>
  ELSE IF value > 0 THEN [i \in 1 .. value |-> "#"]
  ELSE [i \in 1 .. Abs(value) |-> "b"]

\* LETTERS.indexOf(letter), 0-based.
letterIndexOf(letter) == (CHOOSE i \in DOMAIN LETTERS : LETTERS[i] = letter) - 1

\* The seven notes [name, pitchClass] of the scale; degree is 1-based here.
getScaleNotes(rootName, intervals) ==
  LET parsed    == parseNoteName(rootName)
      rootIndex == letterIndexOf(parsed.letter)
  IN  [degree \in DOMAIN intervals |->
         LET letterIndex == (rootIndex + (degree - 1)) % 7
             letter      == LETTERS[letterIndex + 1]
             targetPc    == normalizePitch(parsed.pitchClass + intervals[degree])
             basePc      == LETTER_TO_PC[letter]
             diff        == normalizePitch(targetPc - basePc)
             accidental  == IF diff <= 6 THEN diff ELSE diff - 12
         IN  [name |-> <<letter>> \o formatAccidental(accidental),
              pitchClass |-> targetPc]]

getChordQuality(intervals) ==
  IF intervals = <<0, 4, 7>> THEN "major"
  ELSE IF intervals = <<0, 3, 7>> THEN "minor"
  ELSE IF intervals = <<0, 3, 6>> THEN "diminished"
  ELSE IF intervals = <<0, 4, 8>> THEN "augmented"
  ELSE "major"

getChordSuffix(quality) ==
  IF quality = "minor" THEN <<"m">>
  ELSE IF quality = "diminished" THEN <<"d", "i", "m">>
  ELSE IF quality = "augmented" THEN <<"a", "u", "g">>
  ELSE << >>

\* A variant that computes the fingers whatever it is given.
buildChordShapeOwnFingers(frets, providedFingers) ==
  buildChordShape(frets)

\* buildChordShape(frets, providedFingers) with providedFingers given.
buildChordShapeProvided(frets, providedFingers) ==
  [buildChordShape(frets) EXCEPT !.fingers = providedFingers]

\* The three chord tones of the callback of scaleNotes.map, in the order of
\* the source; index is the source's 0-based index.
chordTonesAt(scaleNotes, index) ==
  <<scaleNotes[(index % 7) + 1].pitchClass,
    scaleNotes[((index + 2) % 7) + 1].pitchClass,
    scaleNotes[((index + 4) % 7) + 1].pitchClass>>

chordNameAt(scaleNotes, index) ==
  LET note == scaleNotes[index + 1]
      intervalsFromRoot ==
        SortedSeq({normalizePitch(tone - note.pitchClass) :
                     tone \in SeqToSet(chordTonesAt(scaleNotes, index))})
  IN  note.name \o getChordSuffix(getChordQuality(intervalsFromRoot))

\* The shape of a chord: the reference shape of its name, or the search.
shapeOfChord(chordName, chordTones, root) ==
  IF Len(preferredShapeOf(chordName)) > 0
  THEN buildChordShapeProvided(Head(preferredShapeOf(chordName)).frets,
                               Head(preferredShapeOf(chordName)).fingers)
  ELSE getBestVoicingShape(SeqToSet(chordTones), root)

\* The callback of scaleNotes.map for one index.
diagramAt(scaleNotes, index, tonality) ==
  [id |-> <<tonality, index, chordNameAt(scaleNotes, index)>>,
   degree |-> IF tonality = "major" THEN ROMAN_MAJOR[index + 1] ELSE ROMAN_MINOR[index + 1],
   name |-> chordNameAt(scaleNotes, index),
   shape |-> shapeOfChord(chordNameAt(scaleNotes, index),
                          chordTonesAt(scaleNotes, index),
                          scaleNotes[index + 1].pitchClass)]

\* The scale notes getDiatonicChordDiagrams maps over.
scaleNotesOf(currentKey, tonality) ==
  LET keyName   == IF tonality = "major" THEN currentKey.major ELSE currentKey.minor
      rootName  == stripMinorSuffix(keyName)
      intervals == IF tonality = "major" THEN MAJOR_INTERVALS ELSE MINOR_INTERVALS
  IN  getScaleNotes(rootName, intervals)

getDiatonicChordDiagrams(currentKey, spellingMode, tonality) ==
  [i \in 1 .. 7 |-> diagramAt(scaleNotesOf(currentKey, tonality), i - 1, tonality)]

----------------------------------------------------------------------------
(* A call of getDiatonicChordDiagrams as a state machine: one step per     *)
(* element of scaleNotes.map, then the return.  The key handed in is what  *)
(* getKeyDataAtIndex gives for a position of the circle and a spelling     *)
(* mode.                                                                   *)

SpellingModes == {"Auto", "Sharps", "Flats"}
Tonalities == {"major", "minor"}

CIRCLE_DATA ==
  << [major |-> << <<"C">> >>, minor |-> << <<"A", "m">> >>],
     [major |-> << <<"G">> >>, minor |-> << <<"E", "m">> >>],
     [major |-> << <<"D">> >>, minor |-> << <<"B", "m">> >>],
     [major |-> << <<"A">> >>, minor |-> << <<"F", "#", "m">>, <<"G", "b", "m">> >>],
     [major |-> << <<"E">> >>, minor |-> << <<"C", "#", "m">>, <<"D", "b", "m">> >>],
     [major |-> << <<"B">>, <<"C", "b">> >>,
      minor |-> << <<"G", "#", "m">>, <<"A", "b", "m">> >>],
     [major |-> << <<"F", "#">>, <<"G", "b">> >>,
      minor |-> << <<"D", "#", "m">>, <<"E", "b", "m">> >>],
     [major |-> << <<"C", "#">>, <<"D", "b">> >>,
      minor |-> << <<"A", "#", "m">>, <<"B", "b", "m">> >>],
     [major |-> << <<"G", "#">>, <<"A", "b">> >>, minor |-> << <<"F", "m">> >>],
     [major |-> << <<"D", "#">>, <<"E", "b">> >>, minor |-> << <<"C", "m">> >>],
     [major |-> << <<"A", "#">>, <<"B", "b">> >>, minor |-> << <<"G", "m">> >>],
     [major |-> << <<"F">> >>, minor |-> << <<"D", "m">> >>] >>

getKeyDataAtIndex(index, mode) ==
  LET normalizedIndex == JsRem(JsRem(index, 12) + 12, 12)
      data == CIRCLE_DATA[normalizedIndex + 1]
      major ==
        IF Len(data.major) > 1
        THEN IF mode = "Flats" THEN data.major[2]
             ELSE IF mode = "Sharps" THEN data.major[1]
             ELSE IF normalizedIndex = 6 THEN data.major[1]
             ELSE IF normalizedIndex > 5 \/ normalizedIndex = 11 THEN data.major[2]
             ELSE data.major[1]
        ELSE data.major[1]
      minor ==
        IF Len(data.minor) > 1
        THEN IF mode = "Flats" THEN data.minor[2] ELSE data.minor[1]
        ELSE data.minor[1]
  IN  [index |-> normalizedIndex, major |-> major, minor |-> minor]

\* The calls the InfoPanel makes: the key at a position of the circle.
DiagramCalls ==
  {[currentKey |-> getKeyDataAtIndex(index, mode), spellingMode |-> mode,
    tonality |-> tonality] :
     index \in 0 .. 11, mode \in SpellingModes, tonality \in Tonalities}

InitDiagrams ==
  /\ \E call \in DiagramCalls : diagramArgs = <<call>>
  /\ diagrams = << >>
  /\ pc = "map"
  /\ calls = << >>
  /\ ModuleLoaded
  /\ DialAtRest
  /\ tones = {}
  /\ rootPc = 0
  /\ scanFret = 1
  /\ calledWith = 0
  /\ accepted = << >>
  /\ ranked = << >>
  /\ candidates = << >>
  /\ best = << >>
  /\ shape = << >>
  /\ scoreArgs = << >>
  /\ scoreResult = << >>
  /\ shapeArgs = << >>

\* The callback of scaleNotes.map on the next index.
MapChord ==
  /\ pc = "map"
  /\ Len(diagrams) < 7
  /\ diagrams' =
       Append(diagrams,
              diagramAt(scaleNotesOf(diagramArgs[1].currentKey, diagramArgs[1].tonality),
                        Len(diagrams), diagramArgs[1].tonality))
  /\ UNCHANGED <<searchVars, scoreVars, fingerVars, dialVars, diagramArgs, callVars, pc>>

ReturnDiagrams ==
  /\ pc = "map"
  /\ Len(diagrams) = 7
  /\ pc' = "mapped"
  /\ UNCHANGED <<searchVars, scoreVars, fingerVars, dialVars, diagramVars, callVars>>

NextDiagrams == MapChord \/ ReturnDiagrams

SpecDiagrams == InitDiagrams /\ [][NextDiagrams]_vars

----------------------------------------------------------------------------
(* A sequence of at most MaxCalls calls on the module.  Each call is       *)
(* recorded with its arguments before and after, what it returned, and the  *)
(* arrays [frets, fingers] of the shapes it returned: an array is named by  *)
(* the number it got when it was allocated.                                *)

GenerateInputs == {<<{0, 4, 7}, 0, 1>>, <<{0, 4, 7}, 0, 3>>}
BestInputs == {<<{0, 4, 7}, 0>>, <<{1, 4, 7}, 1>>}
DiagramInputs ==
  {[currentKey |-> getKeyDataAtIndex(0, "Auto"), spellingMode |-> "Auto",
    tonality |-> tonality] : tonality \in Tonalities}

\* The position in PREFERRED_SHAPES of the entry the lookup of a name finds.
preferredIndexOf(chordName) ==
  CHOOSE k \in DOMAIN PREFERRED_SHAPES :
     PREFERRED_SHAPES[k] = Head(preferredShapeOf(chordName))

\* The arrays of the shape of a chord, top arrays being allocated so far:
\* buildChordShape returns the frets array it is given and, when given,
\* the providedFingers array, which for a reference shape are the arrays of
\* the entry of PREFERRED_SHAPES; getBestVoicingShape returns the frets
\* array of a voicing of the call (or the literal of the fallback) and a
\* fingers array of assignFingerNumbers, both new.
arraysOfShape(chordName, top) ==
  IF Len(preferredShapeOf(chordName)) > 0
  THEN [frets |-> 2 * preferredIndexOf(chordName) - 1,
        fingers |-> 2 * preferredIndexOf(chordName)]
  ELSE [frets |-> top + 1, fingers |-> top + 2]

topAfterShape(chordName, top) ==
  IF Len(preferredShapeOf(chordName)) > 0 THEN top ELSE top + 2

RECURSIVE arraysOfDiagrams(_, _, _)
arraysOfDiagrams(result, i, top) ==
  IF i > Len(result) THEN << >>
  ELSE <<arraysOfShape(result[i].name, top)>>
       \o arraysOfDiagrams(result, i + 1, topAfterShape(result[i].name, top))

RECURSIVE topAfterDiagrams(_, _, _)
topAfterDiagrams(result, i, top) ==
  IF i > Len(result) THEN top
  ELSE topAfterDiagrams(result, i + 1, topAfterShape(result[i].name, top))

InitCalls ==
  /\ calls = << >>
  /\ ModuleLoaded
  /\ DialAtRest
  /\ pc = "calls"
  /\ diagramArgs = << >>
  /\ diagrams = << >>
  /\ tones = {}
  /\ rootPc = 0
  /\ scanFret = 1
  /\ calledWith = 0
  /\ accepted = << >>
  /\ ranked = << >>
  /\ candidates = << >>
  /\ best = << >>
  /\ shape = << >>
  /\ scoreArgs = << >>
  /\ scoreResult = << >>
  /\ shapeArgs = << >>

CallGenerate ==
  /\ pc = "calls"
  /\ Len(calls) < MaxCalls
  /\ \E input \in GenerateInputs :
        calls' = Append(calls,
                   [fn |-> "generateChordVoicings",
                    args |-> input,
                    argsAfter |-> input,
                    out |-> generateChordVoicings(input[1], input[2], input[3]),
                    arrays |-> << >>])
  /\ UNCHANGED <<searchVars, scoreVars, fingerVars, dialVars, diagramVars, heapTop, moduleLevel, pc>>

CallBest ==
  /\ pc = "calls"
  /\ Len(calls) < MaxCalls
  /\ \E input \in BestInputs :
        calls' = Append(calls,
                   [fn |-> "getBestVoicingShape",
                    args |-> input,
                    argsAfter |-> input,
                    out |-> <<getBestVoicingShape(input[1], input[2])>>,
                    arrays |-> <<[frets |-> heapTop + 1, fingers |-> heapTop + 2]>>])
  /\ heapTop' = heapTop + 2
  /\ UNCHANGED <<searchVars, scoreVars, fingerVars, dialVars, diagramVars, moduleLevel, pc>>

\* The record of a call of getDiatonicChordDiagrams that returned result.
diagramsCall(input, result, top) ==
  [fn |-> "getDiatonicChordDiagrams",
   args |-> input,
   argsAfter |-> input,
   out |-> result,
   arrays |-> arraysOfDiagrams(result, 1, top)]

CallDiagrams ==
  /\ pc = "calls"
  /\ Len(calls) < MaxCalls
  /\ \E input \in DiagramInputs :
        calls' = Append(calls,
                   diagramsCall(input,
                                getDiatonicChordDiagrams(input.currentKey,
                                                         input.spellingMode,
                                                         input.tonality),
                                heapTop))
  /\ heapTop' = topAfterDiagrams(calls'[Len(calls')].out, 1, heapTop)
  /\ UNCHANGED <<searchVars, scoreVars, fingerVars, dialVars, diagramVars, moduleLevel, pc>>

NextCalls == CallGenerate \/ CallBest \/ CallDiagrams

SpecCalls == InitCalls /\ [][NextCalls]_vars

----------------------------------------------------------------------------
(* Two calls of getDiatonicChordDiagrams, for keys at the positions of the *)
(* circle where both the major and the minor key have two spellings.       *)

EnharmonicInputs ==
  {[currentKey |-> getKeyDataAtIndex(index, mode), spellingMode |-> mode,
    tonality |-> tonality] :
     index \in 5 .. 7, mode \in {"Sharps", "Flats"}, tonality \in Tonalities}

CallDiagramsOfKey ==
  /\ pc = "calls"
  /\ Len(calls) < 2
  /\ \E input \in EnharmonicInputs :
        calls' = Append(calls,
                   diagramsCall(input,
                                getDiatonicChordDiagrams(input.currentKey,
                                                         input.spellingMode,
                                                         input.tonality),
                                heapTop))
  /\ heapTop' = topAfterDiagrams(calls'[Len(calls')].out, 1, heapTop)
  /\ UNCHANGED <<searchVars, scoreVars, fingerVars, dialVars, diagramVars, moduleLevel, pc>>

NextKeyPair == CallDiagramsOfKey

SpecKeyPair == InitCalls /\ [][NextKeyPair]_vars

----------------------------------------------------------------------------
(* The dial: App's rotation state, the drag handlers of Dial and the step  *)
(* buttons.  Rotations are whole degrees here; a drag moves the dial by at *)
(* most MaxDelta degrees and the dial stays within MaxRotation degrees of  *)
(* its position at start.                                                  *)

MaxDelta == 45
MaxRotation == 90

segmentAngle == 30

\* Math.round(n / d) for integers n and d > 0: the nearest integer, a half
\* going up (Math.round(-0.5) is -0, which counts as 0 in what follows).
roundQuotient(n, d) == (2 * n + d) \div (2 * d)

getIndexFromRotation(rotationDeg) ==
  LET index == roundQuotient(-rotationDeg, segmentAngle)
  IN  JsRem(JsRem(index, 12) + 12, 12)

snapRotationToIndex(rotationDeg) ==
  LET index == roundQuotient(rotationDeg, segmentAngle)
  IN  index * segmentAngle

InitDial ==
  /\ DialAtRest
  /\ pc = "dial"
  /\ NoOuterCall
  /\ tones = {}
  /\ rootPc = 0
  /\ scanFret = 1
  /\ calledWith = 0
  /\ accepted = << >>
  /\ ranked = << >>
  /\ candidates = << >>
  /\ best = << >>
  /\ shape = << >>
  /\ scoreArgs = << >>
  /\ scoreResult = << >>
  /\ shapeArgs = << >>

notDial == <<searchVars, scoreVars, fingerVars, diagramVars, callVars, pc>>

handlePointerDown ==
  /\ pc = "dial"
  /\ ~isDragging
  /\ isDragging' = TRUE
  /\ dragStartRotation' = rotation
  /\ releasedAt' = << >>
  /\ UNCHANGED <<rotation, notDial>>

\* setRotation(dragStartRotation.current + delta)
handlePointerMove ==
  /\ pc = "dial"
  /\ isDragging
  /\ \E delta \in -MaxDelta .. MaxDelta :
        /\ Abs(dragStartRotation + delta) <= MaxRotation
        /\ rotation' = dragStartRotation + delta
  /\ UNCHANGED <<isDragging, dragStartRotation, releasedAt, notDial>>

\* setIsDragging(false); onDragEnd(), which is App's handleDragEnd.
handlePointerUp ==
  /\ pc = "dial"
  /\ isDragging
  /\ isDragging' = FALSE
  /\ releasedAt' = <<rotation>>
  /\ rotation' = snapRotationToIndex(rotation)
  /\ UNCHANGED <<dragStartRotation, notDial>>

rotateStep(direction) ==
  /\ pc = "dial"
  /\ ~isDragging
  /\ LET currentSnap == snapRotationToIndex(rotation)
         newRotation == IF direction = "right" THEN currentSnap - segmentAngle
                        ELSE currentSnap + segmentAngle
     IN  /\ Abs(newRotation) <= MaxRotation
         /\ rotation' = newRotation
  /\ releasedAt' = << >>
  /\ UNCHANGED <<isDragging, dragStartRotation, notDial>>

NextDial ==
  \/ handlePointerDown
  \/ handlePointerMove
  \/ handlePointerUp
  \/ rotateStep("left")
  \/ rotateStep("right")

SpecDial == InitDial /\ [][NextDial]_vars

----------------------------------------------------------------------------
(* Vocabulary of the properties, read off the returned data and the tuning *)
(* alone (none of it goes through the operators of the search).            *)

soundedStrings(frets) == {s \in StringIdx : frets[s] # X}

\* The pitch-class string s sounds at a fret, and its interval above r.
pitchAt(s, fret) == (STANDARD_TUNING[s] + fret) % 12
intervalAbove(pitch, r) == (pitch - r + 12) % 12

intervalsSounded(frets, r) ==
  {intervalAbove(pitchAt(s, frets[s]), r) : s \in soundedStrings(frets)}

chordIntervalSet(c, r) == {intervalAbove(tone, r) : tone \in c}

ThirdIntervals == {3, 4}
FifthFamily == {6, 7, 8}

\* Root, thirds and fifth-family intervals of the chord.
triadIntervalsOf(c, r) ==
  chordIntervalSet(c, r) \cap ({0} \cup ThirdIntervals \cup FifthFamily)

\* The same with one third only: the minor third when the chord has both.
lowestThirdOf(c, r) ==
  IF 3 \in chordIntervalSet(c, r) THEN {3}
  ELSE IF 4 \in chordIntervalSet(c, r) THEN {4} ELSE {}

oneThirdIntervalsOf(c, r) ==
  (chordIntervalSet(c, r) \cap ({0} \cup FifthFamily)) \cup lowestThirdOf(c, r)

\* The window of a call with a given startFret.
winLo(sf) == IF sf <= 1 THEN 0 ELSE sf
winHi(sf) == IF winLo(sf) + 3 < 12 THEN winLo(sf) + 3 ELSE 12

\* String s can sound one of the intervals somewhere in the window.
canSound(s, sf, r, wanted) ==
  \E fret \in winLo(sf) .. winHi(sf) : intervalAbove(pitchAt(s, fret), r) \in wanted

fretsOfSounded(frets) == {frets[s] : s \in soundedStrings(frets)}
spanOf(frets) == SetMax(fretsOfSounded(frets)) - SetMin(fretsOfSounded(frets))

Called == calledWith >= 1
Returned == {ranked[k].voicing : k \in DOMAIN ranked}

isMajorOrMinorTriad(c, r) ==
  chordIntervalSet(c, r) \in {{0, 4, 7}, {0, 3, 7}}

----------------------------------------------------------------------------
(* The properties.                                                         *)

\* C1: for every major and minor triad on each of the 12 roots,
\* getBestVoicingShape returns a shape whose frets have between 3 and 6
\* non-muted entries.
C1_TriadShapeSounds3to6 ==
  (pc = "done" /\ isMajorOrMinorTriad(tones, rootPc)) =>
     /\ Len(shape) = 1
     /\ Cardinality(soundedStrings(shape[1].frets)) >= 3
     /\ Cardinality(soundedStrings(shape[1].frets)) <= 6

\* C1 witness: the call has returned for a minor triad, with a muted string.
C1_Witness ==
  /\ pc = "done"
  /\ chordIntervalSet(tones, rootPc) = {0, 3, 7}
  /\ Cardinality(soundedStrings(shape[1].frets)) < 6

\* C2 as stated: every returned voicing sounds every interval of the chord
\* that is the root, a third (3 or 4) or a fifth-family interval.
C2_EveryTriadIntervalSounded ==
  \A v \in Returned :
     triadIntervalsOf(tones, rootPc) \subseteq intervalsSounded(v.frets, rootPc)

\* C2 amended: every returned voicing sounds the root, every fifth-family
\* interval of the chord, and the third of the chord, the minor third alone
\* when the chord has both thirds.
C2_RequiredIntervalsSounded ==
  \A v \in Returned :
     oneThirdIntervalsOf(tones, rootPc) \subseteq intervalsSounded(v.frets, rootPc)

\* C2 witness: a call returned, for a chord with both thirds, a voicing that
\* sounds the root and the minor third and not the major third.
C2_Witness ==
  /\ Called
  /\ {3, 4} \subseteq chordIntervalSet(tones, rootPc)
  /\ \E v \in Returned :
        /\ {0, 3} \subseteq intervalsSounded(v.frets, rootPc)
        /\ 4 \notin intervalsSounded(v.frets, rootPc)

\* C3 as stated, every third of the chord counted as required: a string that
\* can sound a root, third or fifth-family interval of the chord in the
\* window is not muted in a returned voicing.
C3_NoCapableStringMutedAnyThird ==
  \A v \in Returned : \A s \in StringIdx :
     v.frets[s] = X =>
       ~canSound(s, calledWith, rootPc, triadIntervalsOf(tones, rootPc))

\* C3 with the required intervals of the code (one third): a string that can
\* sound a required interval in the window is not muted in a returned voicing.
C3_NoCapableStringMuted ==
  \A v \in Returned : \A s \in StringIdx :
     v.frets[s] = X =>
       ~canSound(s, calledWith, rootPc, oneThirdIntervalsOf(tones, rootPc))

\* C3 witness: a returned voicing of a chord with both thirds mutes a string
\* that can sound the major third in the window, and sounds the others.
C3_Witness ==
  /\ Called
  /\ {3, 4} \subseteq chordIntervalSet(tones, rootPc)
  /\ \E v \in Returned : \E s \in StringIdx :
        /\ v.frets[s] = X
        /\ canSound(s, calledWith, rootPc, {4})
        /\ \E t \in StringIdx : v.frets[t] # X

\* C4: in every returned voicing the highest sounded fret minus the lowest
\* sounded fret (open strings are fret 0) is at most 3.
C4_SpanAtMost3 ==
  \A v \in Returned : spanOf(v.frets) <= 3

\* C4 witness: a returned voicing spans exactly 3 frets.
C4_Witness ==
  Called /\ \E v \in Returned : spanOf(v.frets) = 3

\* C5: every returned voicing has at least 3 and at most 6 non-muted strings.
C5_SoundedCount3to6 ==
  \A v \in Returned :
     /\ Cardinality(soundedStrings(v.frets)) >= 3
     /\ Cardinality(soundedStrings(v.frets)) <= 6

\* C5 witness: a call returns a voicing of exactly 3 sounded strings and one
\* of more.
C5_Witness ==
  /\ Called
  /\ \E v \in Returned : Cardinality(soundedStrings(v.frets)) = 3
  /\ \E v \in Returned : Cardinality(soundedStrings(v.frets)) > 3

\* C6: the list one call returns never holds the same fret pattern at two
\* positions.
C6_NoDuplicatePattern ==
  \A j, k \in DOMAIN ranked :
     j # k => ranked[j].voicing.frets # ranked[k].voicing.frets

\* C6 witness: a call returned at least two voicings.
C6_Witness == Called /\ Len(ranked) >= 2

\* C7: if a voicing the enumeration accepted sounds a fifth-family interval
\* of the chord, every returned voicing sounds a fifth-family interval.
soundsFifth(frets, c, r) ==
  intervalsSounded(frets, r) \cap FifthFamily \cap chordIntervalSet(c, r) # {}

C7_FifthComplete ==
  (\E k \in DOMAIN accepted : soundsFifth(accepted[k].frets, tones, rootPc)) =>
     \A v \in Returned : soundsFifth(v.frets, tones, rootPc)

\* C7 witness: the enumeration accepted voicings with a fifth-family interval
\* and the call returned several voicings.
C7_Witness ==
  /\ Called
  /\ \E k \in DOMAIN accepted : soundsFifth(accepted[k].frets, tones, rootPc)
  /\ Len(ranked) >= 2

\* C8: the returned list is sorted ascending by score.
C8_SortedByScore ==
  \A j, k \in DOMAIN ranked : j < k => ranked[j].score <= ranked[k].score

\* C8 witness: a returned list whose enumeration order was not sorted: the
\* first accepted voicing is not the first returned one, and scores differ.
C8_Witness ==
  /\ Called
  /\ Len(ranked) >= 2
  /\ ranked[1].score < ranked[Len(ranked)].score
  /\ accepted[1] # ranked[1].voicing

\* C10: the window recorded on each returned voicing starts at 0 when
\* startFret <= 1 and at startFret otherwise, and ends at
\* min(windowStart + 3, 12).
C10_WindowPolicy ==
  \A v \in Returned :
     /\ v.windowStart = (IF calledWith <= 1 THEN 0 ELSE calledWith)
     /\ v.windowEnd = (IF v.windowStart + 3 <= 12 THEN v.windowStart + 3 ELSE 12)
     /\ \A s \in soundedStrings(v.frets) :
          v.windowStart <= v.frets[s] /\ v.frets[s] <= v.windowEnd

\* C10 witnesses: the open window of startFret 1 is used (an open string is
\* sounded), and the window is cut at fret 12.
C10_Witness ==
  /\ calledWith = 1
  /\ \E v \in Returned : \E s \in StringIdx : v.frets[s] = 0

C10_WitnessCut ==
  /\ calledWith = 11
  /\ \E v \in Returned : v.windowEnd = 12

\* C9: for every voicing with at least one sounded string the score is
\* 2 * (maxFret - minFret) + the sum over adjacent sounded pairs of
\* max(0, |difference| - 3) + the number of muted strings + 2 if the
\* lowest sounded string does not sound the root + |4 - sounded strings|
\* + 0.2 * minFret, min and max over all sounded strings, open ones
\* included; it is finite.  (In tenths, as the model keeps scores.)
RECURSIVE jumpSum(_, _)
jumpSum(frets, pairs) ==
  IF pairs = {} THEN 0
  ELSE LET p == CHOOSE q \in pairs : TRUE
           d == IF frets[p] >= frets[p + 1]
                THEN frets[p] - frets[p + 1] ELSE frets[p + 1] - frets[p]
       IN  (IF d - 3 > 0 THEN d - 3 ELSE 0) + jumpSum(frets, pairs \ {p})

statedScore(frets, r) ==
  LET sounded  == soundedStrings(frets)
      lo       == SetMin(fretsOfSounded(frets))
      hi       == SetMax(fretsOfSounded(frets))
      pairs    == {p \in 1 .. 5 : p \in sounded /\ p + 1 \in sounded}
      bass     == SetMin(sounded)
      bassCost == IF pitchAt(bass, frets[bass]) # r THEN 2 ELSE 0
      n        == Cardinality(sounded)
      countCost == IF n >= 4 THEN n - 4 ELSE 4 - n
  IN  10 * (2 * (hi - lo) + jumpSum(frets, pairs) + (6 - n) + bassCost + countCost)
        + 2 * lo

C9_ScoreFormula ==
  (pc = "scored" /\ soundedStrings(scoreArgs.voicing.frets) # {}) =>
     /\ scoreResult[1] = statedScore(scoreArgs.voicing.frets, scoreArgs.root)
     /\ scoreResult[1] < Infinity

\* C9 witness: a scored voicing with a muted string between sounded ones, a
\* jump of more than 3 frets between adjacent strings, an open string and a
\* bass that is not the root.
C9_Witness ==
  /\ pc = "scored"
  /\ LET frets == scoreArgs.voicing.frets
     IN  /\ frets[1] = X /\ frets[2] = 0 /\ frets[3] = 4 /\ frets[4] = X
         /\ frets[5] # X
         /\ pitchAt(2, frets[2]) # scoreArgs.root
  /\ scoreResult[1] > 0

\* The scan as the properties read it: the startFrets whose call returned a
\* non-empty list, the score of their candidate in tenths, and the adjusted
\* scores in exact arithmetic (0.3 is 3 tenths).
withCandidate == {k \in DOMAIN candidates : Len(candidates[k]) > 0}
candidateAt(k) == candidates[k][1]
adjustedByStartFret(k) == candidateAt(k).score + 3 * k
adjustedByWindowStart(k) == candidateAt(k).score + 3 * winLo(k)
scanDone == pc = "done" /\ Len(candidates) = 12

\* C11 as stated: the frets of the returned shape are those of a candidate
\* whose adjusted score, score + 0.3 * startFret, is at most the adjusted
\* score of the candidate of every other startFret.
C11_MinimalByStartFret ==
  (scanDone /\ withCandidate # {}) =>
     \E k \in withCandidate :
        /\ candidateAt(k).voicing.frets = shape[1].frets
        /\ \A j \in withCandidate : adjustedByStartFret(k) <= adjustedByStartFret(j)

\* C11 amended: the same with the adjusted score score + 0.3 * windowStart,
\* windowStart being 0 for startFret 1 and startFret otherwise.
C11_MinimalByWindowStart ==
  (scanDone /\ withCandidate # {}) =>
     \E k \in withCandidate :
        /\ candidateAt(k).voicing.frets = shape[1].frets
        /\ \A j \in withCandidate : adjustedByWindowStart(k) <= adjustedByWindowStart(j)

\* C11 witness: the scan is over, startFret 1 had a candidate, and the
\* returned frets are those of a later startFret with a lower raw score
\* than a candidate scanned after it.
C11_Witness ==
  /\ scanDone
  /\ 1 \in withCandidate
  /\ candidateAt(1).voicing.frets # shape[1].frets
  /\ \E k, j \in withCandidate :
        /\ k < j
        /\ candidateAt(k).voicing.frets = shape[1].frets
        /\ candidateAt(j).score < candidateAt(k).score

FallbackShape ==
  [frets |-> <<X, X, X, X, X, X>>,
   fingers |-> <<NULL, NULL, NULL, NULL, NULL, NULL>>,
   startFret |-> 1,
   barre |-> NoBarre]

\* C12: on any input, with or without the root among the chord tones, the
\* call returns one shape, and when every startFret 1..12 returned an empty
\* list it is the fallback: six muted strings, six fingers none, startFret
\* 1 and no barre.
C12_FallbackWhenNothingFound ==
  pc = "done" =>
     /\ Len(candidates) = 12
     /\ Len(shape) = 1
     /\ (withCandidate = {} => shape[1] = FallbackShape)

\* C12 witness: the call returned for a non-empty chord without its root,
\* after twelve empty searches.
C12_Witness ==
  /\ scanDone
  /\ tones # {}
  /\ rootPc \notin tones
  /\ withCandidate = {}
  /\ Len(shape) = 1

isDiatonicTriad(c, r) ==
  chordIntervalSet(c, r) \in {{0, 4, 7}, {0, 3, 7}, {0, 3, 6}}

\* C13: for every major, minor and diminished triad some startFret in 1..12
\* returns a non-empty list, and the returned shape is not the all-muted
\* fallback.
C13_DiatonicTriadNeverFallback ==
  (scanDone /\ isDiatonicTriad(tones, rootPc)) =>
     /\ withCandidate # {}
     /\ \E s \in StringIdx : shape[1].frets[s] # X

\* C13 witness: the call returned for a diminished triad whose search was
\* empty at some startFret.
C13_Witness ==
  /\ scanDone
  /\ chordIntervalSet(tones, rootPc) = {0, 3, 6}
  /\ withCandidate # DOMAIN candidates
  /\ \E s \in StringIdx : shape[1].frets[s] # X

isCMajorOpenSearch == tones = {0, 4, 7} /\ rootPc = 0 /\ calledWith = 1

\* C19: for the C major triad (tones {0,4,7}, root 0) and startFret 1 the
\* first element of the ranked list uses frets 0..3 only, mutes at most 2
\* strings, sounds at least 4, and sounds the pitch-classes 0, 4 and 7.
C19_CMajorTopResult ==
  isCMajorOpenSearch =>
     /\ Len(ranked) >= 1
     /\ LET frets == ranked[1].voicing.frets
        IN  /\ \A s \in soundedStrings(frets) : frets[s] >= 0 /\ frets[s] <= 3
            /\ Cardinality(StringIdx \ soundedStrings(frets)) <= 2
            /\ Cardinality(soundedStrings(frets)) >= 4
            /\ {0, 4, 7} \subseteq {pitchAt(s, frets[s]) : s \in soundedStrings(frets)}

\* C19 witness: that search returned several voicings, the first of them
\* the open C shape with the low E string sounded.
C19_Witness ==
  /\ isCMajorOpenSearch
  /\ Len(ranked) >= 2
  /\ ranked[1].voicing.frets = <<0, 3, 2, 0, 1, 0>>

----------------------------------------------------------------------------
(* The properties of the fingering synthesizer, on the pattern handed to   *)
(* buildChordShape and the shape it returned.                              *)

builtFrets == shapeArgs[1]
built == shape[1]

\* The strings with a fret > 0, the lowest such fret and the strings on it.
pressed(frets) == {s \in StringIdx : frets[s] # X /\ frets[s] > 0}
lowestPressed(frets) == SetMin({frets[s] : s \in pressed(frets)})
onLowest(frets) == {s \in pressed(frets) : frets[s] = lowestPressed(frets)}

\* C14: detectBarre looks at the strings with fret > 0 only, takes their
\* lowest fret m, and returns the barre {fret m, fromString the lowest index
\* holding m, toString the highest index holding m, finger 1} exactly when
\* at least 2 strings hold m; with one string at m or no fretted string it
\* returns no barre.  (Indices 0..5: string s of the model is index s - 1.)
C14_BarreOnLowestFret ==
  pc = "built" =>
     IF pressed(builtFrets) # {} /\ Cardinality(onLowest(builtFrets)) >= 2
     THEN /\ built.barre.fret = lowestPressed(builtFrets)
          /\ built.barre.fromString = SetMin(onLowest(builtFrets)) - 1
          /\ built.barre.toString = SetMax(onLowest(builtFrets)) - 1
          /\ built.barre.finger = 1
     ELSE built.barre = NoBarre

\* C14 witness: [1,3,3,2,1,1] gives a barre at fret 1 from string 0 to
\* string 5.
C14_Witness ==
  /\ pc = "built"
  /\ builtFrets = <<1, 3, 3, 2, 1, 1>>
  /\ built.barre = [fret |-> 1, fromString |-> 0, toString |-> 5, finger |-> 1]

\* The 1-based rank of a fret among the distinct fretted values.
rankOfFret(frets, fret) ==
  Cardinality({v \in {frets[s] : s \in pressed(frets)} : v <= fret})

\* C15: assignFingerNumbers gives each string with fret > 0 the finger
\* min(k, 4), k the 1-based rank of its fret among the distinct fretted
\* values in ascending order, and gives open and muted strings no finger.
C15_FingerIsCappedRank ==
  pc = "built" =>
     \A s \in StringIdx :
        built.fingers[s] =
          IF s \in pressed(builtFrets)
          THEN (IF rankOfFret(builtFrets, builtFrets[s]) < 4
                THEN rankOfFret(builtFrets, builtFrets[s]) ELSE 4)
          ELSE NULL

\* C15 witness: five distinct fretted values and an open string: the fifth
\* value reuses finger 4, the open string has no finger.
C15_Witness ==
  /\ pc = "built"
  /\ builtFrets = <<1, 2, 3, 4, 5, 0>>
  /\ built.fingers = <<1, 2, 3, 4, 4, NULL>>

\* C16: the startFret of the built shape is the lowest fret among the
\* strings with fret > 0 when that is greater than 1, and 1 when it is 1
\* or when no string is fretted.
C16_DisplayStartFret ==
  pc = "built" =>
     built.startFret =
       IF pressed(builtFrets) # {} /\ lowestPressed(builtFrets) > 1
       THEN lowestPressed(builtFrets)
       ELSE 1

\* C16 witness: an open string, a muted string and the lowest fretted value
\* 3 give startFret 3.
C16_Witness ==
  /\ pc = "built"
  /\ builtFrets[1] = X /\ builtFrets[2] = 0 /\ builtFrets[3] = 3
  /\ lowestPressed(builtFrets) = 3
  /\ built.startFret = 3

----------------------------------------------------------------------------
(* The properties of getDiatonicChordDiagrams and of sequences of calls.   *)

ReferenceKeys == {PREFERRED_SHAPES[k].key : k \in DOMAIN PREFERRED_SHAPES}
referenceEntry(name) ==
  PREFERRED_SHAPES[CHOOSE k \in DOMAIN PREFERRED_SHAPES : PREFERRED_SHAPES[k].key = name]

\* C17: a diatonic chord whose name is exactly one of the reference-shape
\* keys carries exactly the hard-coded fret pattern and the hard-coded
\* finger map of that entry.
C17_ReferenceShapeWins ==
  \A i \in DOMAIN diagrams :
     diagrams[i].name \in ReferenceKeys =>
       /\ diagrams[i].shape.frets = referenceEntry(diagrams[i].name).frets
       /\ diagrams[i].shape.fingers = referenceEntry(diagrams[i].name).fingers

\* C17 witness: the call returned, its chord C carries the reference
\* pattern, and the voicing search ranks another pattern first for the
\* tones of C.
C17_Witness ==
  /\ pc = "mapped"
  /\ \E i \in DOMAIN diagrams :
        /\ diagrams[i].name = <<"C">>
        /\ diagrams[i].shape.frets = <<X, 3, 2, 0, 1, 0>>
        /\ diagrams[i].shape.fingers = <<NULL, 3, 2, NULL, 1, NULL>>
        /\ getBestVoicingShape({0, 4, 7}, 0).frets # diagrams[i].shape.frets

SearchFunctions == {"generateChordVoicings", "getBestVoicingShape"}

ShapeFunctions == {"getBestVoicingShape", "getDiatonicChordDiagrams"}
arraysOfCall(k) ==
  UNION {{calls[k].arrays[n].frets, calls[k].arrays[n].fingers} :
           n \in DOMAIN calls[k].arrays}

\* C20: a call of getDiatonicChordDiagrams or getBestVoicingShape leaves
\* its arguments and the module-level data as they were, and the frets and
\* fingers arrays of the shapes it returns are neither module-level arrays
\* nor arrays of a shape another call returned.
C20_NothingShared ==
  /\ moduleLevel = [STANDARD_TUNING |-> STANDARD_TUNING,
                    PREFERRED_SHAPES |-> PREFERRED_SHAPES]
  /\ \A k \in DOMAIN calls :
        calls[k].fn \in ShapeFunctions =>
          /\ calls[k].argsAfter = calls[k].args
          /\ \A a \in arraysOfCall(k) : a > ModuleArrayCount
          /\ \A j \in DOMAIN calls :
                (j # k /\ calls[j].fn \in ShapeFunctions) =>
                   arraysOfCall(k) \cap arraysOfCall(j) = {}

----------------------------------------------------------------------------
(* The properties of the recorded voicings and of the enumeration.         *)

\* C21: in every returned voicing each sounded string's fret lies in
\* [windowStart, windowEnd], its recorded pitch-class is (open-string
\* pitch-class + fret) mod 12 and is a chord tone, each muted string has no
\* pitch-class, and fretSpan.min / fretSpan.max are the minimum / maximum
\* sounded fret.
C21_VoicingRecordConsistent ==
  \A v \in Returned :
     /\ \A s \in StringIdx :
          IF v.frets[s] = X
          THEN v.stringPitches[s] = NULL
          ELSE /\ winLo(calledWith) <= v.frets[s]
               /\ v.frets[s] <= winHi(calledWith)
               /\ v.windowStart <= v.frets[s]
               /\ v.frets[s] <= v.windowEnd
               /\ v.stringPitches[s] = pitchAt(s, v.frets[s])
               /\ v.stringPitches[s] \in tones
     /\ v.fretSpan.min = SetMin(fretsOfSounded(v.frets))
     /\ v.fretSpan.max = SetMax(fretsOfSounded(v.frets))

\* C21 witness: a call with a window above the nut returned a voicing with a
\* muted string, a string at the last fret of the window and another at a
\* lower fret.
C21_Witness ==
  /\ calledWith >= 2
  /\ \E v \in Returned :
        /\ \E s \in StringIdx : v.frets[s] = X
        /\ \E s \in StringIdx : v.frets[s] = winHi(calledWith)
        /\ v.fretSpan.min < v.fretSpan.max

\* The adjusted score of the candidate of startFret k as the scan computes
\* it, in doubles.
adjustedAsDouble(k) == adjustedScore(scoreAsDouble(candidateAt(k)), k)

C22_TieOfDoublesGoesToLowerStartFret ==
  scanDone =>
    \A j, k \in withCandidate :
       (j < k /\ adjustedAsDouble(j) = adjustedAsDouble(k)) =>
          best[1] # candidateAt(k)

\* What a string may be given in the window of startFret sf: muted, or a
\* fret of the window whose pitch-class is a tone of c.
choicesOn(s, c, sf) ==
  {X} \cup {fret \in winLo(sf) .. winHi(sf) : pitchAt(s, fret) \in c}

\* Every assignment of such choices to the six strings.
assignmentsIn(c, sf) ==
  {<<a1, a2, a3, a4, a5, a6>> :
     a1 \in choicesOn(1, c, sf), a2 \in choicesOn(2, c, sf),
     a3 \in choicesOn(3, c, sf), a4 \in choicesOn(4, c, sf),
     a5 \in choicesOn(5, c, sf), a6 \in choicesOn(6, c, sf)}

\* The assignments with 3..6 sounded strings that cover every required
\* interval, span at most 3 frets and mute no string able to sound a
\* required interval in the window.
admissible(frets, c, r, sf) ==
  /\ Cardinality(soundedStrings(frets)) >= 3
  /\ Cardinality(soundedStrings(frets)) <= 6
  /\ oneThirdIntervalsOf(c, r) \subseteq intervalsSounded(frets, r)
  /\ spanOf(frets) <= 3
  /\ \A s \in StringIdx :
       frets[s] = X => ~canSound(s, sf, r, oneThirdIntervalsOf(c, r))

acceptedPatterns == {accepted[k].frets : k \in DOMAIN accepted}

\* C23: the set of fret patterns the backtracking walk accepts (before the
\* fifth filter) is exactly the set of admissible assignments of the call's
\* window; the pruning on the active-string count discards none of them.
C23_EnumerationExhaustive ==
  Called =>
    acceptedPatterns =
      {frets \in assignmentsIn(tones, calledWith) :
         admissible(frets, tones, rootPc, calledWith)}

\* C23 witness: the walk accepted a pattern of exactly three sounded strings
\* whose first three strings are muted (the branch the pruning test meets
\* with activeCount + remaining = 3) and one that sounds more strings, and
\* it turned down some assignment.
C23_Witness ==
  /\ Called
  /\ \E frets \in acceptedPatterns :
        /\ frets[1] = X /\ frets[2] = X /\ frets[3] = X
        /\ Cardinality(soundedStrings(frets)) = 3
  /\ \E frets \in acceptedPatterns : Cardinality(soundedStrings(frets)) > 3
  /\ \E frets \in assignmentsIn(tones, calledWith) : frets \notin acceptedPatterns

fifthsOfChord(c, r) == chordIntervalSet(c, r) \cap FifthFamily

\* C24: the fifth-completeness filter removes nothing: the returned list
\* holds exactly the accepted voicings, every accepted voicing sounds every
\* fifth-family interval of the chord, and when the chord has none the
\* filter is not applied.
C24_FifthFilterKeepsAll ==
  Called =>
    /\ Len(ranked) = Len(accepted)
    /\ Returned = {accepted[k] : k \in DOMAIN accepted}
    /\ \A k \in DOMAIN accepted :
         fifthsOfChord(tones, rootPc) \subseteq intervalsSounded(accepted[k].frets, rootPc)

\* C24 witness: a call for a chord with two fifth-family intervals accepted
\* several voicings and returned them in another order.
C24_Witness ==
  /\ Called
  /\ Cardinality(fifthsOfChord(tones, rootPc)) = 2
  /\ Len(accepted) >= 2
  /\ \E k \in DOMAIN accepted : ranked[k].voicing # accepted[k]

\* The other case of C24: a call for a chord of three tones without a
\* fifth-family interval accepted several voicings and returned them all.
C24_WitnessNoFifth ==
  /\ Called
  /\ fifthsOfChord(tones, rootPc) = {}
  /\ Cardinality(tones) = 3
  /\ Len(accepted) >= 2
  /\ Len(ranked) = Len(accepted)

\* Every tone of the chord is a required interval (the triads: major, minor,
\* diminished, augmented).
allTonesRequired(c, r) == chordIntervalSet(c, r) = oneThirdIntervalsOf(c, r)
isTriad(c, r) == chordIntervalSet(c, r) \in {{0, 4, 7}, {0, 3, 7}, {0, 3, 6}, {0, 4, 8}}

\* String s has a fret in the window of startFret sf that is a tone of c.
canPlayChordTone(s, c, sf) ==
  \E fret \in winLo(sf) .. winHi(sf) : pitchAt(s, fret) \in c

\* C25: for a chord whose tones are all required intervals, a string is
\* muted in a returned voicing if and only if no fret of the window on that
\* string is a chord tone; all voicings of one call mute the same strings.
C25_MutedIffNoChordTone ==
  (Called /\ allTonesRequired(tones, rootPc)) =>
     /\ \A v \in Returned : \A s \in StringIdx :
          v.frets[s] = X <=> ~canPlayChordTone(s, tones, calledWith)
     /\ \A v, w \in Returned : soundedStrings(v.frets) = soundedStrings(w.frets)

\* C25 witness: a call for a triad returned several voicings which mute a
\* string and differ on a sounded one.
C25_Witness ==
  /\ Called
  /\ isTriad(tones, rootPc)
  /\ allTonesRequired(tones, rootPc)
  /\ \E v, w \in Returned :
        /\ v.frets # w.frets
        /\ \E s \in StringIdx : v.frets[s] = X /\ w.frets[s] = X

----------------------------------------------------------------------------
(* The properties of the shapes of the diagrams.                           *)

hasBarre(sh) == sh.barre # NoBarre

\* The strings (1..6) of a shape that lie in [fromString, toString] of its
\* barre and are fretted at the fret of the barre.
stringsOnBarre(sh) ==
  {s \in StringIdx :
     /\ sh.barre.fromString <= s - 1
     /\ s - 1 <= sh.barre.toString
     /\ sh.frets[s] = sh.barre.fret}

barreMatchesFingers(sh) ==
  hasBarre(sh) => \A s \in stringsOnBarre(sh) : sh.fingers[s] = sh.barre.finger

\* C26: in every shape returned by getDiatonicChordDiagrams that has a
\* barre, every string fretted at barre.fret within [fromString, toString]
\* has the finger number barre.finger (1).
C26_BarreMatchesFingers ==
  \A i \in DOMAIN diagrams : barreMatchesFingers(diagrams[i].shape)

\* Every string strictly between the ends of the barre of a shape is sounded
\* at a fret not below the barre.
barreSpansPressedOnly(sh) ==
  hasBarre(sh) =>
    \A s \in StringIdx :
       (sh.barre.fromString < s - 1 /\ s - 1 < sh.barre.toString) =>
          (sh.frets[s] # X /\ sh.frets[s] >= sh.barre.fret)

isMajorMinorOrDiminished(c, r) ==
  chordIntervalSet(c, r) \in {{0, 4, 7}, {0, 3, 7}, {0, 3, 6}}

\* C27: in every shape getBestVoicingShape returns for a major, minor or
\* diminished triad, every string strictly between barre.fromString and
\* barre.toString is sounded at a fret >= barre.fret: the barre never spans
\* an open or a muted string.
C27_BarrePlayable ==
  (pc = "done" /\ isMajorMinorOrDiminished(tones, rootPc)) =>
     barreSpansPressedOnly(shape[1])

\* The frets the diagram of a shape shows: fretCount = 4 from startFret on.
fitsDiagram(sh, fret) == sh.startFret <= fret /\ fret <= sh.startFret + 3

\* C28: every shape returned by getDiatonicChordDiagrams fits the 4-fret
\* diagram: every string with fret > 0 has startFret <= fret <= startFret + 3
\* and a barre, when present, has its fret in the same range.
C28_ShapeFitsDiagram ==
  \A i \in DOMAIN diagrams :
     /\ \A s \in StringIdx :
          (diagrams[i].shape.frets[s] # X /\ diagrams[i].shape.frets[s] > 0) =>
             fitsDiagram(diagrams[i].shape, diagrams[i].shape.frets[s])
     /\ hasBarre(diagrams[i].shape) =>
          fitsDiagram(diagrams[i].shape, diagrams[i].shape.barre.fret)

\* C28 witness: the call returned a searched shape that starts above the
\* first fret, has a barre and a string two frets above it.
C28_Witness ==
  /\ pc = "mapped"
  /\ \E i \in DOMAIN diagrams :
        /\ diagrams[i].name \notin ReferenceKeys
        /\ diagrams[i].shape.startFret > 1
        /\ hasBarre(diagrams[i].shape)
        /\ \E s \in StringIdx :
             diagrams[i].shape.frets[s] = diagrams[i].shape.startFret + 2

\* The root pitch-class and the tones a chord name stands for: the letter,
\* its sharps and flats, and the suffix ("" major, m, dim, aug).
letterPitch(letter) ==
  CASE letter = "C" -> 0 [] letter = "D" -> 2 [] letter = "E" -> 4 [] letter = "F" -> 5
    [] letter = "G" -> 7 [] letter = "A" -> 9 [] letter = "B" -> 11

countOf(name, ch) == Cardinality({i \in DOMAIN name : i > 1 /\ name[i] = ch})

rootOfName(name) ==
  (letterPitch(name[1]) + countOf(name, "#") - countOf(name, "b") + 24) % 12

intervalsOfName(name) ==
  IF countOf(name, "d") > 0 THEN {0, 3, 6}
  ELSE IF countOf(name, "a") > 0 THEN {0, 4, 8}
  ELSE IF countOf(name, "m") > 0 THEN {0, 3, 7}
  ELSE {0, 4, 7}

tonesOfName(name) == {(rootOfName(name) + i) % 12 : i \in intervalsOfName(name)}

sameChord(d, e) ==
  /\ rootOfName(d.name) = rootOfName(e.name)
  /\ tonesOfName(d.name) = tonesOfName(e.name)

\* The diatonic chords the calls returned.
chordsReturned ==
  {calls[k].out[i] : k \in DOMAIN calls, i \in 1 .. 7}

\* C29 as stated: any two diatonic chords with the same root pitch-class and
\* the same set of chord tones receive identical frets, fingers, startFret
\* and barre.
C29_ShapeByRootAndTones ==
  \A d, e \in chordsReturned : sameChord(d, e) => d.shape = e.shape

\* C29 amended: they do when both names are reference-shape keys or neither
\* is; a reference-shape key and another spelling of the same chord (B and
\* Cb, E and Fb) are not covered.
C29_ShapeByNameOrRootAndTones ==
  \A d, e \in chordsReturned :
     (sameChord(d, e) /\ (d.name \in ReferenceKeys <=> e.name \in ReferenceKeys)) =>
        d.shape = e.shape

\* C29 witness: two calls returned B and Cb with different shapes, and F#
\* and Gb with the same shape.
C29_Witness ==
  /\ Len(calls) = 2
  /\ \E d, e \in chordsReturned :
        /\ d.name = <<"B">> /\ e.name = <<"C", "b">>
        /\ sameChord(d, e)
        /\ d.shape # e.shape
  /\ \E d, e \in chordsReturned :
        /\ d.name = <<"F", "#">> /\ e.name = <<"G", "b">>
        /\ sameChord(d, e)
        /\ d.shape = e.shape

----------------------------------------------------------------------------
(* The property of the dial.                                               *)

\* The key selected at a rotation: the index mod 12 of the nearest segment,
\* -rotation / 30 rounded with a half going up.
selectedAt(r) == ((((15 - r) \div 30) % 12) + 12) % 12

\* C30: snapping the dial at drag end never changes the selected key: the
\* index of the snapped rotation is the index of the rotation the dial was
\* released at.
C30_SnapKeepsSelectedKey ==
  Len(releasedAt) = 1 => selectedAt(rotation) = selectedAt(releasedAt[1])

====
